---- MODULE Spec2Model ----
(***************************************************************************)
(* Model of src/main.py (discord-images-downloader): main() drives a       *)
(* browser through setup_driver, driver.get, scroll_to_bottom and          *)
(* download_images, and closes the browser in its finally block.           *)
(*                                                                         *)
(* The browser, the page, the HTTP client and the disk are the             *)
(* environment: every call into them either returns one of the values the  *)
(* code distinguishes or raises, chosen nondeterministically.              *)
(* Time is counted in whole seconds since start_time (line 55).            *)
(***************************************************************************)
EXTENDS Integers, Sequences, FiniteSets, TLC

\* ---- bounds of the model ----
MaxScrolls == 4
MaxPause == 7
MaxLatency == 1
MaxHeight == 2
MaxLinks == 3
NumUrls == 2

\* ---- program constant: scroll_to_bottom(..., timeout: int = 30) ----
Timeout == 30

\* href values: a URL, or NoUrl when get_attribute returns None / ""
NoUrl == 0
\* the local variable url of download_images before its first assignment
Unbound == -1
\* "no measurement recorded" for the ghost clocks
Never == -1

Urls == 1..NumUrls
Hrefs == Urls \cup {NoUrl}
Heights == 1..MaxHeight
LinkLists == UNION {[1..n -> Hrefs] : n \in 0..MaxLinks}

VARIABLES
  pc,              \* position of the single thread of control in main
  profileExists,   \* os.path.exists(abs_profile_path)
  driverBound,     \* 'driver' in locals() of main
  sessions,        \* browser sessions created by webdriver.Chrome
  navCalls,        \* calls of driver.get
  quitCalls,       \* calls of driver.quit
  caught,          \* the exception main's except clause caught, or "none"
  max_scrolls, pause, last_height, scroll_attempts,   \* frame of scroll_to_bottom
  elapsed,         \* time.time() - start_time
  pageHeight,      \* document.body.scrollHeight, as scroll_to_bottom will measure it
  markerPresent,   \* an element matching [class*='noMoreMessages'] is there to find
  scrollCmds,      \* window.scrollTo commands issued
  stallStart,      \* elapsed at the first unchanged measurement of the current stall
  lastChange,      \* elapsed at the measurement that set last_height
  waited,          \* the 'wait longer and retry' branch was taken
  queryResult,     \* outcome of the marker query of the current iteration
  queryFailed,     \* some marker query raised
  exitReason,      \* how the while loop ended
  imgs, i, url, seen, downloaded, skipped, errors,    \* frame of download_images
  fetches,         \* requests.get calls per URL
  failedUrls,      \* URLs whose fetch failed (network failure or HTTP status)
  hrefFailed,      \* some get_attribute("href") raised
  writeFailed,     \* some open()/write() raised
  dlState          \* "notrun", "running", "returned", "raised"

mainVars == <<pc, profileExists, driverBound, sessions, navCalls, quitCalls, caught>>
frameVars == <<max_scrolls, pause, last_height, scroll_attempts, elapsed>>
pageVars == <<pageHeight, markerPresent>>
scrollGhost == <<scrollCmds, stallStart, lastChange, waited, queryResult, queryFailed, exitReason>>
scrollVars == <<frameVars, pageVars, scrollGhost>>
dlVars == <<imgs, i, url, seen, downloaded, skipped, errors, fetches, failedUrls,
            hrefFailed, writeFailed, dlState>>
vars == <<mainVars, scrollVars, dlVars>>

ScrollPcs == {"loop", "measure", "marker", "scroll_done"}

Init ==
  /\ pc = "setup"
  /\ profileExists \in BOOLEAN
  /\ driverBound = FALSE
  /\ sessions = 0 /\ navCalls = 0 /\ quitCalls = 0
  /\ caught = "none"
  /\ max_scrolls = 0 /\ pause = 0 /\ last_height = 0 /\ scroll_attempts = 0
  /\ elapsed = 0
  /\ pageHeight = 0 /\ markerPresent = FALSE
  /\ scrollCmds = 0 /\ stallStart = Never /\ lastChange = Never
  /\ waited = FALSE /\ queryResult = "none" /\ queryFailed = FALSE
  /\ exitReason = "none"
  /\ imgs = <<>> /\ i = 0 /\ url = Unbound /\ seen = {}
  /\ downloaded = 0 /\ skipped = 0 /\ errors = 0
  /\ fetches = [u \in Urls |-> 0]
  /\ failedUrls = {}
  /\ hrefFailed = FALSE /\ writeFailed = FALSE
  /\ dlState = "notrun"

\* main's "except Exception as e" (lines 166-167): log, fall into finally
Raise(e) ==
  /\ caught' = e
  /\ pc' = "finally"

\* ------------------------------------------------------------------------
\* setup_driver (lines 24-49), called at line 157
\* ------------------------------------------------------------------------
ProfileMissing_Mut == FALSE

ProfileMissing == ~profileExists

SetupDriver ==
  /\ pc = "setup"
  /\ \/ /\ ProfileMissing
        /\ Raise("FileNotFoundError")
        /\ UNCHANGED <<driverBound, sessions>>
     \/ /\ ~ProfileMissing
        /\ \/ /\ sessions' = sessions + 1
              /\ driverBound' = TRUE
              /\ pc' = "navigate"
              /\ caught' = caught
           \/ /\ Raise("WebDriverException_setup")
              /\ UNCHANGED <<driverBound, sessions>>
  /\ UNCHANGED <<profileExists, navCalls, quitCalls, scrollVars, dlVars>>

\* driver.get(url); time.sleep(5) (lines 158-160)
Navigate ==
  /\ pc = "navigate"
  /\ navCalls' = navCalls + 1
  /\ \/ /\ pc' = "scroll_init"
        /\ caught' = caught
        /\ pageHeight' \in Heights
        /\ markerPresent' \in BOOLEAN
     \/ /\ Raise("WebDriverException_get")
        /\ UNCHANGED pageVars
  /\ UNCHANGED <<profileExists, driverBound, sessions, quitCalls,
                 frameVars, scrollGhost, dlVars>>

\* ------------------------------------------------------------------------
\* scroll_to_bottom (lines 51-85), called at line 162 with args.scrolls, args.pause
\* ------------------------------------------------------------------------
ScrollInit ==
  /\ pc = "scroll_init"
  /\ \/ /\ \E ms \in 0..MaxScrolls, p \in 1..MaxPause :
              /\ max_scrolls' = ms
              /\ pause' = p
        /\ last_height' = pageHeight
        /\ elapsed' = 0
        /\ scroll_attempts' = 0
        /\ lastChange' = 0
        /\ pc' = "loop"
        /\ caught' = caught
     \/ /\ Raise("height_initial")
        /\ UNCHANGED <<frameVars, lastChange>>
  /\ UNCHANGED <<profileExists, driverBound, sessions, navCalls, quitCalls, pageVars,
                 scrollCmds, stallStart, waited, queryResult, queryFailed, exitReason,
                 dlVars>>

LoopGuard_Mut == scroll_attempts <= max_scrolls

LoopGuard == scroll_attempts < max_scrolls

\* lines 58-63: loop test, scroll command, time.sleep(pause); the page loads
\* (or not) while the thread sleeps
ScrollCmd ==
  /\ pc = "loop"
  /\ LoopGuard
  /\ scroll_attempts' = scroll_attempts + 1
  /\ scrollCmds' = scrollCmds + 1
  /\ queryResult' = "none"
  /\ \/ /\ \E d \in 0..MaxLatency : elapsed' = elapsed + pause + d
        /\ pageHeight' \in Heights
        /\ markerPresent' \in BOOLEAN
        /\ pc' = "measure"
        /\ caught' = caught
     \/ /\ Raise("scroll_command")
        /\ UNCHANGED <<elapsed, pageVars>>
  /\ UNCHANGED <<profileExists, driverBound, sessions, navCalls, quitCalls,
                 max_scrolls, pause, last_height,
                 stallStart, lastChange, waited, queryFailed, exitReason, dlVars>>

\* line 58 false: the while loop ends because of the iteration count
LoopExhausted ==
  /\ pc = "loop"
  /\ ~LoopGuard
  /\ exitReason' = "max_scrolls"
  /\ pc' = "scroll_done"
  /\ UNCHANGED <<profileExists, driverBound, sessions, navCalls, quitCalls, caught,
                 frameVars, pageVars, scrollCmds, stallStart, lastChange, waited,
                 queryResult, queryFailed, dlVars>>

TimedOut_Mut == elapsed > 2 * Timeout

TimedOut == elapsed > Timeout

\* lines 65-76: measure the height, compare, timeout or extended wait
Measure ==
  /\ pc = "measure"
  /\ \/ /\ pageHeight = last_height
        /\ stallStart' = IF stallStart = Never THEN elapsed ELSE stallStart
        /\ \/ /\ TimedOut
              /\ exitReason' = "timeout"
              /\ pc' = "scroll_done"
              /\ UNCHANGED <<elapsed, waited>>
           \/ /\ ~TimedOut
              /\ elapsed' = elapsed + 2 * pause
              /\ waited' = TRUE
              /\ pc' = "loop"
              /\ UNCHANGED exitReason
        /\ UNCHANGED <<last_height, lastChange, caught>>
     \/ /\ pageHeight # last_height
        /\ last_height' = pageHeight
        /\ lastChange' = elapsed
        /\ stallStart' = Never
        /\ pc' = "marker"
        /\ UNCHANGED <<elapsed, waited, exitReason, caught>>
     \/ /\ Raise("height_measurement")
        /\ UNCHANGED <<last_height, elapsed, stallStart, lastChange, waited, exitReason>>
  /\ UNCHANGED <<profileExists, driverBound, sessions, navCalls, quitCalls,
                 max_scrolls, pause, scroll_attempts, pageVars, scrollCmds,
                 queryResult, queryFailed, dlVars>>

\* lines 82-83: the marker query raised; logged at debug level, loop goes on
FindMarkerRaises_Mut ==
  /\ pc = "marker"
  /\ queryResult' = "raised"
  /\ queryFailed' = TRUE
  /\ Raise("marker_query")
  /\ UNCHANGED exitReason

FindMarkerRaises ==
  /\ pc = "marker"
  /\ queryResult' = "raised"
  /\ queryFailed' = TRUE
  /\ pc' = "loop"
  /\ UNCHANGED <<exitReason, caught>>

\* lines 78-81: the marker query returned
FindMarkerReturns ==
  /\ pc = "marker"
  /\ queryFailed' = queryFailed
  /\ caught' = caught
  /\ IF markerPresent
       THEN /\ queryResult' = "found"
            /\ exitReason' = "marker"
            /\ pc' = "scroll_done"
       ELSE /\ queryResult' = "absent"
            /\ exitReason' = exitReason
            /\ pc' = "loop"

FindMarker ==
  /\ \/ FindMarkerReturns
     \/ FindMarkerRaises
  /\ UNCHANGED <<profileExists, driverBound, sessions, navCalls, quitCalls,
                 frameVars, pageVars, scrollCmds, stallStart, lastChange, waited, dlVars>>

\* line 85 and the return: the frame of scroll_to_bottom is discarded, and
\* nothing measures the page height or looks for the marker any more
ScrollReturn ==
  /\ pc = "scroll_done"
  /\ max_scrolls' = 0 /\ pause' = 0 /\ last_height' = 0 /\ scroll_attempts' = 0
  /\ elapsed' = 0
  /\ stallStart' = Never /\ lastChange' = Never
  /\ waited' = FALSE /\ queryResult' = "none" /\ exitReason' = "none"
  /\ pageHeight' = 0 /\ markerPresent' = FALSE
  /\ pc' = "download"
  /\ UNCHANGED <<profileExists, driverBound, sessions, navCalls, quitCalls, caught,
                 scrollCmds, queryFailed, dlVars>>

\* ------------------------------------------------------------------------
\* download_images (lines 87-132), called at line 163
\* ------------------------------------------------------------------------
\* lines 89-102: makedirs, the link query, the counters
DownloadStart ==
  /\ pc = "download"
  /\ \/ /\ \E l \in LinkLists : imgs' = l
        /\ i' = 1
        /\ dlState' = "running"
        /\ pc' = IF Len(imgs') = 0 THEN "dl_done" ELSE "dl_href"
        /\ caught' = caught
     \/ /\ dlState' = "returned"          \* find_elements raised: logged, return
        /\ pc' = "finally"
        /\ caught' = caught
        /\ UNCHANGED <<imgs, i>>
     \/ /\ dlState' = "raised"            \* os.makedirs raised
        /\ Raise("OSError_makedirs")
        /\ UNCHANGED <<imgs, i>>
  /\ UNCHANGED <<profileExists, driverBound, sessions, navCalls, quitCalls, scrollVars,
                 url, seen, downloaded, skipped, errors, fetches, failedUrls,
                 hrefFailed, writeFailed>>

\* the for loop moves on to the next link, or ends
NextLink ==
  /\ i' = i + 1
  /\ pc' = IF i + 1 > Len(imgs) THEN "dl_done" ELSE "dl_href"
  /\ caught' = caught
  /\ dlState' = dlState

\* line 106, and lines 128-130 when get_attribute raises: the handler counts
\* the error and then formats the local url into the log message; a local
\* that was never assigned raises UnboundLocalError inside the handler
DlHref ==
  /\ pc = "dl_href"
  /\ \/ /\ url' = imgs[i]
        /\ pc' = "dl_check"
        /\ UNCHANGED <<i, errors, hrefFailed, caught, dlState>>
     \/ /\ hrefFailed' = TRUE
        /\ errors' = errors + 1
        /\ url' = url
        /\ IF url = Unbound
             THEN /\ Raise("UnboundLocalError")
                  /\ dlState' = "raised"
                  /\ i' = i
             ELSE NextLink
  /\ UNCHANGED <<profileExists, driverBound, sessions, navCalls, quitCalls, scrollVars,
                 imgs, seen, downloaded, skipped, fetches, failedUrls, writeFailed>>

AlreadySeen_Mut(u) == FALSE

AlreadySeen(u) == u \in seen

\* lines 107-112: skip an absent or repeated href, else remember it
DlCheck ==
  /\ pc = "dl_check"
  /\ IF url = NoUrl \/ AlreadySeen(url)
       THEN /\ skipped' = skipped + 1
            /\ NextLink
            /\ seen' = seen
       ELSE /\ seen' = seen \cup {url}
            /\ pc' = "dl_fetch"
            /\ UNCHANGED <<skipped, i, caught, dlState>>
  /\ UNCHANGED <<profileExists, driverBound, sessions, navCalls, quitCalls, scrollVars,
                 imgs, url, downloaded, errors, fetches, failedUrls, hrefFailed,
                 writeFailed>>

FetchOutcomes == {"ok", "network_error", "http_error"}

\* requests.get raises on a network failure (line 114), raise_for_status on
\* an error status (line 115)
FetchRaises_Mut(o) == o = "network_error"

FetchRaises(o) == o \in {"network_error", "http_error"}

\* lines 114-115, and lines 125-127 when the fetch fails
DlFetch ==
  /\ pc = "dl_fetch"
  /\ fetches' = [fetches EXCEPT ![url] = @ + 1]
  /\ \E o \in FetchOutcomes :
        /\ failedUrls' = IF o = "ok" THEN failedUrls ELSE failedUrls \cup {url}
        /\ IF FetchRaises(o)
             THEN /\ errors' = errors + 1
                  /\ NextLink
             ELSE /\ pc' = "dl_write"
                  /\ UNCHANGED <<errors, i, caught, dlState>>
  /\ UNCHANGED <<profileExists, driverBound, sessions, navCalls, quitCalls, scrollVars,
                 imgs, url, seen, downloaded, skipped, hrefFailed, writeFailed>>

\* lines 117-123, and lines 128-130 when open() or write() raises
DlWrite ==
  /\ pc = "dl_write"
  /\ \/ /\ downloaded' = downloaded + 1
        /\ UNCHANGED <<errors, writeFailed>>
     \/ /\ errors' = errors + 1
        /\ writeFailed' = TRUE
        /\ UNCHANGED downloaded
  /\ NextLink
  /\ UNCHANGED <<profileExists, driverBound, sessions, navCalls, quitCalls, scrollVars,
                 imgs, url, seen, skipped, fetches, failedUrls, hrefFailed>>

\* line 132 and the return to main (line 165)
DlDone ==
  /\ pc = "dl_done"
  /\ dlState' = "returned"
  /\ pc' = "finally"
  /\ UNCHANGED <<profileExists, driverBound, sessions, navCalls, quitCalls, caught,
                 scrollVars, imgs, i, url, seen, downloaded, skipped, errors, fetches,
                 failedUrls, hrefFailed, writeFailed>>

\* ------------------------------------------------------------------------
\* main's finally block (lines 168-171)
\* ------------------------------------------------------------------------
DriverInLocals_Mut == FALSE

DriverInLocals == driverBound

Finally ==
  /\ pc = "finally"
  /\ quitCalls' = IF DriverInLocals THEN quitCalls + 1 ELSE quitCalls
  /\ pc' = "exit"
  /\ UNCHANGED <<profileExists, driverBound, sessions, navCalls, caught,
                 scrollVars, dlVars>>

Next ==
  \/ SetupDriver
  \/ Navigate
  \/ ScrollInit
  \/ ScrollCmd
  \/ LoopExhausted
  \/ Measure
  \/ FindMarker
  \/ ScrollReturn
  \/ DownloadStart
  \/ DlHref
  \/ DlCheck
  \/ DlFetch
  \/ DlWrite
  \/ DlDone
  \/ Finally

Spec == Init /\ [][Next]_vars

\* every call of the script is blocking and returns or raises; the single
\* thread always takes its next step
FairSpec == Spec /\ WF_vars(Next)

\* ========================================================================
\* Properties
\* ========================================================================

\* C1: within one pass no URL is fetched more than once, and a link whose
\* href is already in seen (whether that earlier fetch succeeded or failed)
\* is not fetched: only skipped grows, by one.
C1_NoRefetch ==
  /\ [](\A u \in Urls : fetches[u] <= 1)
  /\ [][(pc = "dl_check" /\ url \in seen) =>
          /\ fetches' = fetches
          /\ skipped' = skipped + 1
          /\ downloaded' = downloaded
          /\ errors' = errors
          /\ pc' # "dl_fetch"]_vars

\* a repeated link was skipped after the first fetch of its URL had failed
C1_Witness ==
  /\ dlState = "returned"
  /\ ~hrefFailed
  /\ skipped >= 1
  /\ \E j \in 1..Len(imgs) : \E k \in 1..(j - 1) :
        /\ imgs[k] = imgs[j]
        /\ imgs[j] \in failedUrls
        /\ fetches[imgs[j]] = 1

\* M of the claim: links whose URL is the URL of an earlier link
DupCount(l) ==
  Cardinality({j \in 1..Len(l) : \E k \in 1..(j - 1) : l[k] = l[j]})

\* the scenario of the claim: every link carries a URL and is either a
\* repeat, a fetch failure or a download (no href read and no file write fails)
C2_Scenario ==
  /\ dlState = "returned"
  /\ pc \in {"finally", "exit"}
  /\ \A j \in 1..Len(imgs) : imgs[j] # NoUrl
  /\ ~hrefFailed
  /\ ~writeFailed

\* C2: N links, M of them repeats of an earlier link's URL, K distinct URLs
\* failing to fetch: the pass ends with downloaded = N - M - K, skipped = M,
\* errors = K.
C2_Counts ==
  C2_Scenario =>
    /\ downloaded = Len(imgs) - DupCount(imgs) - Cardinality(failedUrls)
    /\ skipped = DupCount(imgs)
    /\ errors = Cardinality(failedUrls)

C2_Witness ==
  /\ C2_Scenario
  /\ DupCount(imgs) >= 1
  /\ Cardinality(failedUrls) >= 1
  /\ downloaded >= 1

\* C3: the loop of scroll_to_bottom runs at most max_scrolls iterations and
\* issues at most max_scrolls scroll commands, whatever the page does.
C3_BoundedScrolls ==
  pc \in ScrollPcs => /\ scroll_attempts <= max_scrolls
                      /\ scrollCmds <= max_scrolls

\* the loop ran out of iterations after taking the extended-wait branch
C3_Witness ==
  /\ pc = "scroll_done"
  /\ exitReason = "max_scrolls"
  /\ max_scrolls >= 2
  /\ scrollCmds = max_scrolls
  /\ waited

\* C4 as stated: no scroll command is issued once the measured height has
\* stayed unchanged for timeout seconds.
C4_Original ==
  [][(pc = "loop" /\ scrollCmds' = scrollCmds + 1) =>
        ~(stallStart # Never /\ elapsed - stallStart >= Timeout)]_vars

\* C4 amended: once an unchanged height is measured more than timeout
\* seconds after scroll_to_bottom started, the loop stops and no further
\* scroll command is issued; a scroll command is issued during a stall only
\* if the last measurement was at most timeout seconds after the start, so
\* the stall is then at most timeout + 2 * pause seconds old.
C4_Amended ==
  /\ [][(pc = "measure" /\ pageHeight = last_height /\ elapsed > Timeout
           /\ caught' = "none") =>
          (pc' = "scroll_done" /\ exitReason' = "timeout")]_vars
  /\ [][scrollCmds' # scrollCmds => (pc = "loop" /\ exitReason = "none")]_vars
  /\ [][(scrollCmds' # scrollCmds /\ stallStart # Never) =>
          elapsed - stallStart <= Timeout + 2 * pause]_vars

\* the timeout exit was taken at the end of a stall that lasted timeout seconds
C4_Witness ==
  /\ pc = "scroll_done"
  /\ exitReason = "timeout"
  /\ stallStart # Never
  /\ elapsed - stallStart >= Timeout

\* C5: quit is called exactly once in every run in which setup_driver
\* returned a driver, whatever raised afterwards, and never otherwise.
C5_Cleanup ==
  /\ [](quitCalls <= 1)
  /\ [](quitCalls = 1 => driverBound)
  /\ [](pc = "exit" => quitCalls = (IF driverBound THEN 1 ELSE 0))
  /\ (driverBound ~> quitCalls = 1)
  /\ <>(pc = "exit")

\* the browser was closed after an exception in the scroll or download phase
C5_Witness ==
  /\ pc = "exit"
  /\ quitCalls = 1
  /\ caught \in {"height_measurement", "scroll_command", "UnboundLocalError",
                 "OSError_makedirs"}

\* C6: with the profile directory missing setup_driver raises before a
\* browser session exists, and main navigates, scrolls and downloads nothing.
C6_MissingProfile ==
  ~profileExists =>
    /\ sessions = 0
    /\ ~driverBound
    /\ navCalls = 0
    /\ scrollCmds = 0
    /\ dlState = "notrun"
    /\ \A u \in Urls : fetches[u] = 0
    /\ pc \in {"setup", "finally", "exit"}
    /\ (pc # "setup" => caught = "FileNotFoundError")

C6_Witness ==
  /\ ~profileExists
  /\ pc = "exit"
  /\ caught = "FileNotFoundError"
  /\ quitCalls = 0

\* C7 as stated: when the end-of-content marker is on the page during an
\* iteration, the loop stops in that iteration, whether or not the height
\* changed: it does not go on to a further iteration (a marker query that
\* raises is left aside).
C7_Original ==
  [][/\ (pc = "measure" /\ markerPresent /\ caught' = "none")
          => (pc' \in {"marker", "scroll_done"} \/ ~LoopGuard')
     /\ (pc = "marker" /\ markerPresent /\ queryResult' # "raised")
          => pc' = "scroll_done"]_vars

\* C8 as stated: neither a failed height measurement nor a failed marker
\* query leaves scroll_to_bottom, so download_images runs afterwards.
C8_Original ==
  /\ caught # "height_measurement"
  /\ (pc = "exit" /\ queryFailed /\ caught = "none") => dlState # "notrun"

\* C8 amended: a failed marker query is caught and the loop goes on with its
\* next iteration, download_images running afterwards unless something else
\* raises; a failed height measurement is not caught in scroll_to_bottom: it
\* ends the function, main logs it and download_images does not run.
C8_Amended ==
  /\ [][(pc = "marker" /\ queryResult' = "raised") =>
          (pc' = "loop" /\ caught' = "none" /\ scroll_attempts' = scroll_attempts)]_vars
  /\ []((pc = "exit" /\ queryFailed /\ caught = "none") => dlState = "returned")
  /\ [](caught \in {"height_measurement", "height_initial"} =>
          (dlState = "notrun" /\ pc \in {"finally", "exit"}))

\* a marker query failed, the loop went on, and the download pass ran
C8_Witness ==
  /\ pc = "exit"
  /\ queryFailed
  /\ scrollCmds >= 2
  /\ dlState = "returned"
  /\ Len(imgs) >= 1

\* C9 as stated: the timeout exit is taken only when the height has been
\* unchanged for more than timeout seconds (counted here from the
\* measurement that last changed last_height, the longest the stall can be).
C9_Original ==
  exitReason = "timeout" => elapsed - lastChange > Timeout

\* C10 as stated: every link gets exactly one outcome, the pass goes through
\* all links and no per-link failure leaves download_images.
C10_Original ==
  /\ caught # "UnboundLocalError"
  /\ dlState = "returned" => downloaded + skipped + errors = Len(imgs)
  /\ pc = "dl_href" => downloaded + skipped + errors = i - 1
====
